---- MODULE Spec2Model ----
(***************************************************************************)
(* Model of BRDProcessor._extract_use_case_info and                        *)
(* BRDProcessor.generate_pdf (src/phase1_2.py).                            *)
(*                                                                         *)
(* A string is a sequence of characters (one-character strings).  The five *)
(* section names never overlap one another or themselves, so an occurrence *)
(* of a section name in a text is one atomic element of the sequence; the  *)
(* two spellings of each name stand for re.IGNORECASE.                     *)
(***************************************************************************)
EXTENDS Integers, Sequences, FiniteSets, TLC

VARIABLES
    secs,          \* the sections text is written from, each [lab, content]
    text,          \* user_story, the argument of _extract_use_case_info
    use_case_info, \* the dict it returns, as a sequence of [key, value]
    ephase,        \* "input" before the call, "extracted" after it
    use_case,      \* the argument of generate_pdf, a sequence of [key, value]
    maxw,          \* the maximum line width of the wrap rule (50 in the code)
    pc,            \* position of generate_pdf
    fi,            \* index of the field the for loop of line 92 is at
    content_words, \* the words of the field still to be read by line 97
    current_text,  \* the line buffer
    y,             \* pdf.get_y()
    pages          \* the pages of the document, each [border, lines]

vars == <<secs, text, use_case_info, ephase, use_case, maxw, pc, fi, content_words,
          current_text, y, pages>>

evars == <<secs, text, use_case_info, ephase>>
pvars == <<use_case, maxw, pc, fi, content_words, current_text, y, pages>>

-----------------------------------------------------------------------------
(* Bounds of the model *)

\* longest sequence of sections in arbitrary (also repeated) label order
MaxShuffled == 2
\* number of words of the long content block (each word fills a line)
LongWords == 8

-----------------------------------------------------------------------------
(* Strings *)

Min(S) == CHOOSE m \in S : \A n \in S : m <= n
Max(S) == CHOOSE m \in S : \A n \in S : m >= n

Rep(c, n) == [i \in 1..n |-> c]

RECURSIVE Concat(_)
Concat(ss) == IF ss = <<>> THEN <<>> ELSE Head(ss) \o Concat(Tail(ss))

\* the characters str.strip(), str.split() and \s treat as whitespace
IsSpace(c) == c \in {" ", "\n"}

\* str.strip()
Strip(s) ==
    LET keep == {i \in 1..Len(s) : ~IsSpace(s[i])}
    IN  IF keep = {} THEN <<>> ELSE SubSeq(s, Min(keep), Max(keep))

\* str.split(): the maximal runs of non-whitespace characters, in order
Split(s) ==
    LET starts == {i \in 1..Len(s) :
                     ~IsSpace(s[i]) /\ (i = 1 \/ IsSpace(s[i - 1]))}
        EndOf(i) == Min({j \in i..Len(s) : j = Len(s) \/ IsSpace(s[j + 1])})
        Nth(k)   == CHOOSE i \in starts : Cardinality({j \in starts : j < i}) = k - 1
    IN  [k \in 1..Cardinality(starts) |-> SubSeq(s, Nth(k), EndOf(Nth(k)))]

-----------------------------------------------------------------------------
(* _extract_use_case_info *)

\* the keys of patterns, in the order the dict literal gives them
Labels == <<"Actors", "Preconditions", "Main Flow", "Postconditions", "Exceptions">>

LowerLabels == <<"actors", "preconditions", "main flow", "postconditions", "exceptions">>

NoInfo == <<"N","o"," ","i","n","f","o","r","m","a","t","i","o","n"," ",
            "a","v","a","i","l","a","b","l","e",".">>

\* re.IGNORECASE: the element at p is the name of label i in some letter case
NameAt(s, p, i) == p <= Len(s) /\ s[p] \in {Labels[i], LowerLabels[i]}

\* \s* (greedy) from position p: the first position that is not whitespace
SkipSpace(s, p) == Min({q \in p..(Len(s) + 1) : q > Len(s) \/ ~IsSpace(s[q])})

\* "<label>\s*:" matches at p
HeadingAt(s, p, i) ==
    /\ NameAt(s, p, i)
    /\ LET c == SkipSpace(s, p + 1) IN c <= Len(s) /\ s[c] = ":"

\* $ without re.MULTILINE: the end of the string, or just before a final newline
AtDollar(s, q) == q = Len(s) + 1 \/ (q = Len(s) /\ s[q] = "\n")

\* the lookahead (?=<next label>|$); the last pattern has (.*) and no lookahead
Lookahead(s, q, i) ==
    IF i < Len(Labels) THEN NameAt(s, q, i + 1) \/ AtDollar(s, q)
    ELSE q = Len(s) + 1

\* pattern.search(user_story): the leftmost match, as [found, group]
Search(s, i) ==
    LET starts == {p \in 1..Len(s) : HeadingAt(s, p, i)}
    IN  IF starts = {} THEN [found |-> FALSE, group |-> <<>>]
        ELSE LET p == Min(starts)
                 c == SkipSpace(s, p + 1)
                 g == SkipSpace(s, c + 1)
                 e == Min({q \in g..(Len(s) + 1) : Lookahead(s, q, i)})
             IN  [found |-> TRUE, group |-> SubSeq(s, g, e - 1)]

\* line 79 with the sentinel forgotten
ValueOfEmptyDefault(s, i) ==
    LET match == Search(s, i)
    IN  IF match.found THEN Strip(match.group) ELSE <<>>

\* line 79
ValueOf(s, i) ==
    LET match == Search(s, i)
    IN  IF match.found THEN Strip(match.group) ELSE NoInfo

\* lines 76-80
ExtractUseCaseInfo(s) ==
    [i \in 1..Len(Labels) |-> [key |-> Labels[i], value |-> ValueOf(s, i)]]

-----------------------------------------------------------------------------
(* The texts _extract_use_case_info is applied to *)

\* content blocks as written in the text
Pool ==
    { <<"x">>,
      <<" ", "x", " ", "y", "\n">>,
      <<"x", " ", "preconditions", " ", "y", "\n">>,
      <<"x", " ", "Exceptions", ":", " ", "y", "\n">>,
      <<"\n">> }

\* spellings of a heading: letter case of the name, and the separator
Styles == [lower : BOOLEAN, sep : {<<":">>, <<" ", ":", " ">>}]

RECURSIVE SortedSeq(_)
SortedSeq(S) == IF S = {} THEN <<>> ELSE <<Min(S)>> \o SortedSeq(S \ {Min(S)})

\* the labels in the fixed order with any of them missing, and short
\* sequences of labels in any order
LabelSeqs ==
    {SortedSeq(S) : S \in SUBSET (1..Len(Labels))}
    \cup UNION {[1..n -> 1..Len(Labels)] : n \in 1..MaxShuffled}

SectionText(sec, st) ==
    <<IF st.lower THEN LowerLabels[sec.lab] ELSE Labels[sec.lab]>>
    \o st.sep \o sec.content

Render(ss, st) == Concat([k \in 1..Len(ss) |-> SectionText(ss[k], st)])

PdfIdle ==
    /\ use_case = <<>>
    /\ maxw = 0
    /\ pc = "idle"
    /\ fi = 0
    /\ content_words = <<>>
    /\ current_text = <<>>
    /\ y = 0
    /\ pages = <<>>

InitExtract ==
    /\ \E labs \in LabelSeqs :
         \E cs \in [1..Len(labs) -> Pool] :
           \E st \in Styles :
             /\ secs = [k \in 1..Len(labs) |-> [lab |-> labs[k], content |-> cs[k]]]
             /\ text = Render(secs, st)
    /\ use_case_info = <<>>
    /\ ephase = "input"
    /\ PdfIdle

\* use_case_info = self._extract_use_case_info(user_story)
Extract ==
    /\ ephase = "input"
    /\ use_case_info' = ExtractUseCaseInfo(text)
    /\ ephase' = "extracted"
    /\ UNCHANGED <<secs, text>>
    /\ UNCHANGED pvars

NextExtract == Extract

SpecExtract == InitExtract /\ [][NextExtract]_vars

-----------------------------------------------------------------------------
(* FPDF, as generate_pdf uses it.  Lengths are in millimetres: FPDF() is an *)
(* A4 portrait page with margins of 10 and automatic page breaks at 20 from *)
(* the bottom; every cursor position the program reaches is a multiple of 5 *)
(* above the top margin.                                                    *)

PageH == 297          \* pdf.h
TopMargin == 10       \* pdf.t_margin: the cursor of a fresh page
AutoBreakMargin == 20 \* pdf.b_margin of the automatic page break
BottomMargin == 20    \* the margin of the program's own check, line 101
LineH == 10           \* height of a title, heading or body cell
SpacerH == 5          \* height of the spacer cell
TitleGap == 10        \* pdf.ln(10)
MaxLineWidth == 50

Title == <<"U","s","e"," ","C","a","s","e"," ","D","o","c","u","m","e","n","t">>

\* pdf.add_page(): a new page without decoration, cursor at the top margin
AddPage(pdf) ==
    [y |-> TopMargin,
     pages |-> Append(pdf.pages, [border |-> FALSE, lines |-> <<>>])]

\* pdf.rect(5, 5, 200, 287): drawn on the current page
Rect(pdf) ==
    [pdf EXCEPT !.pages[Len(pdf.pages)].border = TRUE]

\* the automatic page break taken only once the cursor has left the page
AutoBreakLate(pdf, h) == pdf.y > PageH - AutoBreakMargin

\* FPDF.cell's automatic page break, which FPDF() leaves switched on and
\* generate_pdf never switches off: the cell would cross the break trigger
AutoBreak(pdf, h) == pdf.y + h > PageH - AutoBreakMargin

\* pdf.cell(0, h, txt, ln=True): break the page first when the cell does not
\* fit, then draw the cell at the cursor and move the cursor below it
Cell(pdf, h, kind, field, txt) ==
    LET at == IF AutoBreak(pdf, h) THEN AddPage(pdf) ELSE pdf
        n  == Len(at.pages)
    IN  [y |-> at.y + h,
         pages |-> [at.pages EXCEPT ![n].lines =
                      Append(@, [kind |-> kind, field |-> field, txt |-> txt,
                                 y |-> at.y, h |-> h])]]

\* pdf.ln(h)
Ln(pdf, h) == [pdf EXCEPT !.y = @ + h]

-----------------------------------------------------------------------------
(* generate_pdf *)

Pdf == [y |-> y, pages |-> pages]

\* line 98 with >= for >
OverflowsAtWidth(cur, word, w) == Len(cur) + Len(word) + 1 >= w

\* line 98
Overflows(cur, word, w) == Len(cur) + Len(word) + 1 > w

\* line 107 without the separating space
JoinedNoSpace(cur, word) == cur \o word

\* line 107
Joined(cur, word) == IF cur # <<>> THEN cur \o <<" ">> \o word ELSE word

\* line 101
NeedsPage(pdf) == pdf.y + LineH > PageH - BottomMargin

\* lines 102-105
NewBorderedPage(pdf) == Rect(AddPage(pdf))

\* line 108 without its test
HasTextAlways(cur) == TRUE

\* line 108
HasText(cur) == cur # <<>>

\* lines 83-91
Start ==
    /\ pc = "start"
    /\ LET p1 == Rect(AddPage(Pdf))
           p2 == Ln(Cell(p1, LineH, "title", 0, Title), TitleGap)
       IN  y' = p2.y /\ pages' = p2.pages
    /\ fi' = 1
    /\ pc' = "field"
    /\ UNCHANGED <<use_case, maxw, content_words, current_text>>
    /\ UNCHANGED evars

\* lines 92-96: the next item of use_case.items()
Heading ==
    /\ pc = "field"
    /\ fi <= Len(use_case)
    /\ LET p1 == Cell(Pdf, LineH, "heading", fi, <<use_case[fi].key, ":">>)
       IN  y' = p1.y /\ pages' = p1.pages
    /\ content_words' = Split(use_case[fi].value)
    /\ current_text' = <<>>
    /\ pc' = "word"
    /\ UNCHANGED <<use_case, maxw, fi>>
    /\ UNCHANGED evars

\* lines 97-105: the word does not fit the buffer
WordFlush ==
    /\ pc = "word"
    /\ content_words # <<>>
    /\ Overflows(current_text, Head(content_words), maxw)
    /\ LET p1 == Cell(Pdf, LineH, "body", fi, current_text)
           p2 == IF NeedsPage(p1) THEN NewBorderedPage(p1) ELSE p1
       IN  y' = p2.y /\ pages' = p2.pages
    /\ current_text' = Head(content_words)
    /\ content_words' = Tail(content_words)
    /\ UNCHANGED <<use_case, maxw, fi, pc>>
    /\ UNCHANGED evars

\* lines 97-98, 106-107: the word joins the buffer
WordAppend ==
    /\ pc = "word"
    /\ content_words # <<>>
    /\ ~Overflows(current_text, Head(content_words), maxw)
    /\ current_text' = Joined(current_text, Head(content_words))
    /\ content_words' = Tail(content_words)
    /\ UNCHANGED <<use_case, maxw, fi, pc, y, pages>>
    /\ UNCHANGED evars

\* lines 108-111: the last line of the field, if any, and the spacer
EndField ==
    /\ pc = "word"
    /\ content_words = <<>>
    /\ LET p1 == IF HasText(current_text)
                 THEN Cell(Pdf, LineH, "body", fi, current_text)
                 ELSE Pdf
           p2 == Cell(p1, SpacerH, "spacer", fi, <<>>)
       IN  y' = p2.y /\ pages' = p2.pages
    /\ fi' = fi + 1
    /\ pc' = "field"
    /\ UNCHANGED <<use_case, maxw, content_words, current_text>>
    /\ UNCHANGED evars

\* line 112
Output ==
    /\ pc = "field"
    /\ fi > Len(use_case)
    /\ pc' = "done"
    /\ UNCHANGED <<use_case, maxw, fi, content_words, current_text, y, pages>>
    /\ UNCHANGED evars

NextPdf == Start \/ Heading \/ WordFlush \/ WordAppend \/ EndField \/ Output

-----------------------------------------------------------------------------
(* The FieldSets generate_pdf is applied to *)

Letters == <<"a", "b", "c", "d", "e", "f", "g", "h", "i", "j", "k", "l">>

\* the k-th word of the long content block: 30 characters, the last one its own
LongWord(k) == Rep("w", 29) \o <<Letters[((k - 1) % Len(Letters)) + 1]>>

\* LongWords words of 30 characters: each fills a line of its own
LongContent ==
    Concat([k \in 1..LongWords |-> (IF k = 1 THEN <<>> ELSE <<" ">>) \o LongWord(k)])

AlphaBetaGamma ==
    <<"a","l","p","h","a"," ","b","e","t","a"," ","g","a","m","m","a">>

PdfContents ==
    { <<>>,
      NoInfo,
      Rep("W", MaxLineWidth + 1),
      LongContent,
      <<" ">> \o AlphaBetaGamma \o <<"\n">> }

FieldSets(contents) ==
    {[i \in 1..Len(Labels) |-> [key |-> Labels[i], value |-> cs[i]]] :
        cs \in [1..Len(Labels) -> contents]}

ExtractIdle ==
    /\ secs = <<>>
    /\ text = <<>>
    /\ use_case_info = <<>>
    /\ ephase = "idle"

PdfStart ==
    /\ pc = "start"
    /\ fi = 0
    /\ content_words = <<>>
    /\ current_text = <<>>
    /\ y = 0
    /\ pages = <<>>

InitPdf ==
    /\ use_case \in FieldSets(PdfContents)
    /\ maxw = MaxLineWidth
    /\ PdfStart
    /\ ExtractIdle

SpecPdf == InitPdf /\ [][NextPdf]_vars

\* the wrap rule with the maximum line width as a parameter
WrapContents ==
    { <<>>,
      AlphaBetaGamma,
      <<"a","l","p","h","a","b","e","t","a","g","a","m","m","a">>,
      <<"a","l","p","h","a","\n","b","e","t","a","s"," "," ","g","a","m","m","a">> }

InitWrap ==
    /\ use_case \in FieldSets(WrapContents)
    /\ maxw \in {9, 10, 11}
    /\ PdfStart
    /\ ExtractIdle

SpecWrap == InitWrap /\ [][NextPdf]_vars

-----------------------------------------------------------------------------
(* Properties of _extract_use_case_info *)

Extracted == ephase = "extracted"

Keys(info) == [i \in 1..Len(info) |-> info[i].key]

\* label i is present in s: its name occurs followed by a separator
Present(s, i) == \E p \in 1..Len(s) : HeadingAt(s, p, i)

\* the text is written from all five sections in the fixed order, each with
\* content that is not empty once trimmed
AllFiveInOrder ==
    /\ [k \in 1..Len(secs) |-> secs[k].lab] = <<1, 2, 3, 4, 5>>
    /\ \A k \in 1..Len(secs) : Strip(secs[k].content) # <<>>

\* C3: from a text with all five labels in the fixed order and non-empty
\* content, each label gets exactly the content written for it, trimmed,
\* whatever the content says.
C3_ExactContent ==
    (Extracted /\ AllFiveInOrder) =>
        \A i \in 1..Len(Labels) : use_case_info[i].value = Strip(secs[i].content)

\* the content of a present label: the trimmed text after its separator up to
\* the start of the next heading that occurs in the text, or the end of text
OwnContent(s, i) ==
    LET p == Min({q \in 1..Len(s) : HeadingAt(s, q, i)})
        g == SkipSpace(s, SkipSpace(s, p + 1) + 1)
        e == Min({q \in g..(Len(s) + 1) :
                    q = Len(s) + 1 \/ \E j \in 1..Len(Labels) : HeadingAt(s, q, j)})
    IN  Strip(SubSeq(s, g, e - 1))

\* no content block of the text mentions a section name
PlainContents ==
    \A k \in 1..Len(secs) : \A q \in 1..Len(secs[k].content) :
        \A i \in 1..Len(Labels) : ~NameAt(secs[k].content, q, i)

\* the sections of the text follow the fixed order, none twice
InOrder == \A k \in 1..(Len(secs) - 1) : secs[k].lab < secs[k + 1].lab

\* C4: when labels are missing, exactly the missing ones get the sentinel and
\* every present one gets its own content, not merged with later sections
\* (checked on the texts whose sections are in order and mention no label).
C4_MissingLabels ==
    (/\ Extracted
     /\ InOrder
     /\ PlainContents
     /\ \E i \in 1..Len(Labels) : ~Present(text, i)) =>
        \A i \in 1..Len(Labels) :
            use_case_info[i].value =
                IF Present(text, i) THEN OwnContent(text, i) ELSE NoInfo

\* the serialized FieldSet: each label, its separator and its content, in order
Serialize(info) ==
    Concat([i \in 1..Len(info) |->
              <<info[i].key, ":", " ">> \o info[i].value \o <<"\n">>])

\* C6: extracting from the serialization of an extracted FieldSet gives the
\* same FieldSet again.
C6_Idempotent ==
    Extracted => ExtractUseCaseInfo(Serialize(use_case_info)) = use_case_info

\* C10 as stated: the keys are the five labels in order and no content block
\* is the empty string.
C10_NeverEmpty ==
    Extracted =>
        /\ Keys(use_case_info) = Labels
        /\ \A i \in 1..Len(Labels) : use_case_info[i].value # <<>>

\* only whitespace lies between the separator of the first heading of label i
\* and the next label's name (or the end of the text)
BlankSection(s, i) ==
    \E p \in 1..Len(s) :
        /\ HeadingAt(s, p, i)
        /\ \A q \in 1..(p - 1) : ~HeadingAt(s, q, i)
        /\ LET g == SkipSpace(s, SkipSpace(s, p + 1) + 1)
           IN  g = Len(s) + 1 \/ (i < Len(Labels) /\ NameAt(s, g, i + 1))

\* C10 amended: the keys are the five labels in order; a label that is not
\* found gets the sentinel, never the empty string; a content block is the
\* empty string exactly when the label is found with nothing but whitespace
\* after its separator.
C10_KeysAndEmpty ==
    Extracted =>
        /\ Keys(use_case_info) = Labels
        /\ \A i \in 1..Len(Labels) :
             /\ ~Present(text, i) => use_case_info[i].value = NoInfo
             /\ use_case_info[i].value = <<>> <=> BlankSection(text, i)

\* a label found with empty content next to a label that is missing
C10_Witness ==
    /\ Extracted
    /\ \E i, j \in 1..Len(Labels) :
         /\ use_case_info[i].value = <<>>
         /\ Present(text, i)
         /\ ~Present(text, j)
         /\ use_case_info[j].value = NoInfo

-----------------------------------------------------------------------------
(* Properties of generate_pdf *)

Done == pc = "done"

\* the lines of the document, in page order and then in line order
AllLines == Concat([k \in 1..Len(pages) |-> pages[k].lines])

LinesOf(f, kind) ==
    SelectSeq(AllLines, LAMBDA l : l.field = f /\ l.kind = kind)

\* the texts of the body lines of field f
BodyLines(f) == LET ls == LinesOf(f, "body") IN [k \in 1..Len(ls) |-> ls[k].txt]

\* the fields whose rendering is complete
Rendered == {f \in 1..Len(use_case) : f < fi}

C2_EveryPageBordered ==
    \A k \in 1..Len(pages) : pages[k].border

\* C5: the body lines of each field, read in page and line order, carry
\* exactly the whitespace-separated words of the field's content, in order.
C5_WordsPreserved ==
    Done =>
        \A f \in 1..Len(use_case) :
            LET ls == BodyLines(f)
            IN  Concat([k \in 1..Len(ls) |-> Split(ls[k])]) = Split(use_case[f].value)

\* a field of several lines whose body lines lie on two pages
C5_Witness ==
    /\ Done
    /\ \E f \in Rendered : \E k \in 1..(Len(pages) - 1) :
         /\ \E n \in 1..Len(pages[k].lines) :
              pages[k].lines[n].field = f /\ pages[k].lines[n].kind = "body"
         /\ \E n \in 1..Len(pages[k + 1].lines) :
              pages[k + 1].lines[n].field = f /\ pages[k + 1].lines[n].kind = "body"

\* C7: a field whose content is one word longer than the maximum line width
\* gets exactly one body line, the word itself.
C7_LongWordAlone ==
    \A f \in Rendered :
        LET ws == Split(use_case[f].value)
        IN  (Len(ws) = 1 /\ Len(ws[1]) > maxw) => BodyLines(f) = <<ws[1]>>

\* C8 as stated: a field whose content is the empty string or the sentinel
\* gets its heading and the spacer and no body line.
C8_NoBodyLine ==
    \A f \in Rendered :
        use_case[f].value \in {<<>>, NoInfo} =>
            /\ Len(LinesOf(f, "heading")) = 1
            /\ Len(LinesOf(f, "spacer")) = 1
            /\ BodyLines(f) = <<>>

\* C8 amended: such a field gets its heading and the spacer; between them the
\* empty string gets no body line, and the sentinel gets one body line, the
\* sentinel text itself.
C8_EmptyOrSentinel ==
    \A f \in Rendered :
        use_case[f].value \in {<<>>, NoInfo} =>
            /\ Len(LinesOf(f, "heading")) = 1
            /\ Len(LinesOf(f, "spacer")) = 1
            /\ BodyLines(f) = IF use_case[f].value = <<>> THEN <<>> ELSE <<NoInfo>>

C8_Witness ==
    /\ Done
    /\ \E f, g \in Rendered :
         /\ use_case[f].value = <<>> /\ BodyLines(f) = <<>>
         /\ use_case[g].value = NoInfo /\ BodyLines(g) = <<NoInfo>>

Alpha == <<"a","l","p","h","a">>
Beta == <<"b","e","t","a">>
Gamma == <<"g","a","m","m","a">>

\* C9 as stated: for W = 10 the content "alpha beta gamma" is wrapped into
\* the lines "alpha", "beta", "gamma".
C9_EachWordAlone ==
    \A f \in Rendered :
        (maxw = 10 /\ use_case[f].value = AlphaBetaGamma) =>
            BodyLines(f) = <<Alpha, Beta, Gamma>>

\* C9 amended: a word starts a new line exactly when joining it to the
\* buffer with one space gives more than W characters, so that for W = 10 the
\* content "alpha beta gamma" is wrapped into "alpha beta" and "gamma".
C9_WrapRule ==
    \A f \in Rendered :
        LET ls == BodyLines(f)
        IN  /\ \A k \in 1..Len(ls) : Len(Split(ls[k])) >= 2 => Len(ls[k]) <= maxw
            /\ \A k \in 1..(Len(ls) - 1) :
                 Len(ls[k]) + 1 + Len(Split(ls[k + 1])[1]) > maxw
            /\ (maxw = 10 /\ use_case[f].value = AlphaBetaGamma) =>
                 ls = <<Alpha \o <<" ">> \o Beta, Gamma>>

C9_Witness ==
    /\ Done
    /\ maxw = 10
    /\ \E f \in Rendered :
         /\ use_case[f].value = AlphaBetaGamma
         /\ Len(BodyLines(f)) = 2

====
